---- MODULE Spec2Model ----
(***************************************************************************)
(* Model of ai/run.py: the two authenticated endpoints /api/random-phrase  *)
(* and /api/translate, the require_auth decorator, the profile fetches and *)
(* the two generation gateways.  Every request is a small process whose    *)
(* steps are the external calls of its handler.                            *)
(***************************************************************************)
EXTENDS Integers, Sequences, FiniteSets, TLC

(***************************************************************************)
(* Bounds.                                                                 *)
(***************************************************************************)
\* longest Authorization header value of the exhaustive header set
MaxHeaderLen == 3

\* characters of a header value: two letters and the space
Alphabet == {"a", "b", " "}

\* the requests that may be in flight together
Reqs == {"r1", "r2"}

(***************************************************************************)
(* Python / JSON values.  t is the type tag, s the text of a str, l the    *)
(* elements of a list.  None is the value of t "null"; "missing" marks a   *)
(* key a dict does not hold.                                               *)
(***************************************************************************)
None == [t |-> "null", s |-> "", l |-> <<>>]
Missing == [t |-> "missing", s |-> "", l |-> <<>>]
Str(x) == [t |-> "str", s |-> x, l |-> <<>>]
List(xs) == [t |-> "list", s |-> "", l |-> xs]

\* Python truthiness (`not x`, `x or y`, `x and y`)
Truthy(v) ==
    CASE v.t = "str" -> v.s # ""
      [] v.t = "list" -> v.l # <<>>
      [] OTHER -> FALSE

\* x or y
Or(x, y) == IF Truthy(x) THEN x ELSE y

\* isinstance(v, list)
IsList(v) == v.t = "list"

\* pydantic validation of a `str` field (schemas.py: word: str, ...)
IsStr(v) == v.t = "str"

(***************************************************************************)
(* dicts: total functions from the keys of interest to a value or Missing. *)
(***************************************************************************)
BodyKeys == {"words", "word", "source_language", "target_language"}
ProfileKeys == {"context", "native_language", "target_language"}

\* k in d
HasKey(d, k) == d[k].t # "missing"

\* d.get(k)
Get(d, k) == IF HasKey(d, k) THEN d[k] ELSE None

\* d.get(k, default)
GetDefault(d, k, default) == IF HasKey(d, k) THEN d[k] ELSE default

EmptyBodyDict == [k \in BodyKeys |-> Missing]

(***************************************************************************)
(* Request bodies as request.get_json() sees them.                         *)
(*   "unparseable": no body / not JSON, get_json() raises                  *)
(*   "null":        the JSON value null, get_json() returns None           *)
(*   "array":       a JSON array of strings (arr)                          *)
(*   "object":      a JSON object (obj)                                    *)
(***************************************************************************)
Unparseable == [kind |-> "unparseable", obj |-> EmptyBodyDict, arr |-> <<>>]
NullBody == [kind |-> "null", obj |-> EmptyBodyDict, arr |-> <<>>]
ArrayBody(xs) == [kind |-> "array", obj |-> EmptyBodyDict, arr |-> xs]
ObjectBody(d) == [kind |-> "object", obj |-> d, arr |-> <<>>]

\* not data
BodyFalsy(b) ==
    CASE b.kind = "null" -> TRUE
      [] b.kind = "array" -> b.arr = <<>>
      [] b.kind = "object" -> \A k \in BodyKeys : ~HasKey(b.obj, k)
      [] OTHER -> FALSE

\* key in data
BodyHas(b, k) ==
    CASE b.kind = "object" -> HasKey(b.obj, k)
      [] b.kind = "array" -> \E i \in 1..Len(b.arr) : b.arr[i] = k
      [] OTHER -> FALSE

\* data.get exists only on a dict; on a list it is an AttributeError
BodyHasGet(b) == b.kind = "object"

PhraseBodies ==
    {Unparseable, NullBody, ArrayBody(<<"words">>), ArrayBody(<<"x">>),
     ObjectBody(EmptyBodyDict),
     ObjectBody([EmptyBodyDict EXCEPT !["word"] = Str("hi")])}
    \cup {ObjectBody([EmptyBodyDict EXCEPT !["words"] = w]) :
            w \in {None, Str("x"), List(<<>>), List(<<"sun">>),
                   List(<<"sun", "run">>)}}

TranslateBodies ==
    {Unparseable, NullBody, ArrayBody(<<"word">>), ArrayBody(<<"x">>),
     ObjectBody(EmptyBodyDict),
     ObjectBody([EmptyBodyDict EXCEPT !["words"] = List(<<"sun">>)])}
    \cup {ObjectBody([EmptyBodyDict EXCEPT !["word"] = w,
                                           !["source_language"] = s,
                                           !["target_language"] = g]) :
            w \in {None, Str(""), Str("hi"), List(<<"x">>)},
            s \in {Missing, Str(""), Str("Dutch")},
            g \in {Missing, Str(""), Str("Italian")}}

BodiesOf(ep) == IF ep = "phrase" THEN PhraseBodies ELSE TranslateBodies

(***************************************************************************)
(* Authorization headers.  A header value is a sequence of characters.     *)
(***************************************************************************)
NoHeader == [present |-> FALSE, val |-> <<>>]
Header(cs) == [present |-> TRUE, val |-> cs]

RECURSIVE SeqsUpTo(_)
SeqsUpTo(n) ==
    IF n = 0 THEN {<<>>}
    ELSE LET shorter == SeqsUpTo(n - 1)
         IN shorter \cup {Append(s, c) : s \in {x \in shorter : Len(x) = n - 1},
                                         c \in Alphabet}

\* every header value of at most MaxHeaderLen characters, and no header
AllHeaders == {NoHeader} \cup {Header(cs) : cs \in SeqsUpTo(MaxHeaderLen)}

\* the headers of the request-level specification
SomeHeaders ==
    {NoHeader, Header(<<>>), Header(<<"a">>), Header(<<"b", "b">>),
     Header(<<"b", " ", "a">>), Header(<<"a", " ", "b">>),
     Header(<<"b", " ", "a", " ", "b">>), Header(<<"b", " ", " ", "a">>)}

\* " " in s
HasSpace(s) == \E i \in 1..Len(s) : s[i] = " "

\* s.split(" "): the pieces between the spaces, empty pieces kept
RECURSIVE Split(_)
Split(s) ==
    IF ~HasSpace(s) THEN <<s>>
    ELSE LET i == CHOOSE j \in 1..Len(s) :
                      s[j] = " " /\ \A k \in 1..(j - 1) : s[k] # " "
         IN <<SubSeq(s, 1, i - 1)>> \o Split(SubSeq(s, i + 1, Len(s)))

\* mutant: auth_header.split(" ")[-1], the last piece instead of the second
ExtractTokenLastPiece(h) ==
    IF HasSpace(h)
    THEN LET parts == Split(h)
         IN [ok |-> TRUE, token |-> parts[Len(parts)]]
    ELSE [ok |-> TRUE, token |-> h]

\* auth_header.split(" ")[1] if " " in auth_header else auth_header
\* ok = FALSE stands for the IndexError of the subscript
ExtractToken(h) ==
    IF HasSpace(h)
    THEN LET parts == Split(h)
         IN IF Len(parts) >= 2 THEN [ok |-> TRUE, token |-> parts[2]]
            ELSE [ok |-> FALSE, token |-> <<>>]
    ELSE [ok |-> TRUE, token |-> h]

(***************************************************************************)
(* The identity service (supabase.auth.get_user) knows two tokens.         *)
(***************************************************************************)
Users == {"u1", "u2"}
NoUser == "nobody"

ValidToken(tok) == tok \in {<<"a">>, <<"b">>}
UserOf(tok) == IF tok = <<"a">> THEN "u1" ELSE "u2"


\* mutant: the user kept in one module-level slot that all requests share
SetRequestUserGlobal(ru, r, u) == [q \in DOMAIN ru |-> u]

\* request.user = user_response.user: `request` is Flask's context-local
\* proxy, so the assignment lands in the slot of the request being handled
SetRequestUser(ru, r, u) == [ru EXCEPT ![r] = u]

(***************************************************************************)
(* The profiles table (external store): each user has one row or none.     *)
(***************************************************************************)
EmptyProfileDict == [k \in ProfileKeys |-> Missing]
NoRow == [some |-> FALSE, d |-> EmptyProfileDict]
Row(d) == [some |-> TRUE, d |-> d]

Rows ==
    {Row([context |-> c, native_language |-> n, target_language |-> g]) :
        c \in {Missing, None, Str("ctx")},
        n \in {Missing, Str(""), Str("French")},
        g \in {Missing, Str(""), Str("German")}}

\* the tables of the request-level specification: every user holds the same
\* row, or nobody holds one
UniformStores == {[u \in Users |-> row] : row \in Rows \cup {NoRow}}

FullRow == Row([context |-> Str("ctx"), native_language |-> Str("French"),
                target_language |-> Str("German")])
OtherRow == Row([context |-> None, native_language |-> Str(""),
                 target_language |-> Str("German")])

\* the tables of the two-request specification
SomeStores ==
    {[u \in Users |-> IF u = "u1" THEN FullRow ELSE OtherRow],
     [u \in Users |-> IF u = "u1" THEN FullRow ELSE NoRow]}

(***************************************************************************)
(* Results of the generation gateways and response bodies.                 *)
(***************************************************************************)
NoOutput ==
    [kind |-> "none", phrase |-> "", words |-> <<>>, word |-> "",
     source_language |-> "", target_language |-> "",
     primary_translation |-> "", alternative_translations |-> <<>>,
     examples |-> <<>>, notes |-> ""]

\* PhraseOutput(phrase=..., words=...)
PhraseOutput(phrase, words) ==
    [NoOutput EXCEPT !.kind = "phrase", !.phrase = phrase, !.words = words]

\* TranslationOutput(word=..., ...) (schemas.py)
TranslationOutput(word, src, tgt, primary, alts, examples, notes) ==
    [NoOutput EXCEPT !.kind = "translation", !.word = word,
                     !.source_language = src, !.target_language = tgt,
                     !.primary_translation = primary,
                     !.alternative_translations = alts,
                     !.examples = examples, !.notes = notes]

\* str(result) of a pipeline result that carries no structured attribute
RawText == "raw text"

\* what the pipeline itself produces when it returns a structured result
StructuredPhrase == PhraseOutput("generated phrase", <<"sun">>)
StructuredTranslation ==
    TranslationOutput("hi", "English", "Spanish", "hola", <<"buenas">>,
                      <<<<"Hola, amigo", "Hello, friend">>>>, "greeting")

\* what a gateway hands back: a model, None, or a raised exception (msg)
Unset == [kind |-> "unset", out |-> NoOutput, msg |-> ""]
Model(out) == [kind |-> "model", out |-> out, msg |-> ""]
NoneResult == [kind |-> "None", out |-> NoOutput, msg |-> ""]
Raised(msg) == [kind |-> "raised", out |-> NoOutput, msg |-> msg]

(***************************************************************************)
(* What kickoff_async can do:                                              *)
(*   "structured": the result has .pydantic holding the output model       *)
(*   "attr_none":  the result has .pydantic, and it is None                *)
(*   "raw":        the result has no .pydantic attribute                   *)
(*   "raise":      the call raises                                         *)
(***************************************************************************)
PipelineOutcomes == {"structured", "attr_none", "raw", "raise"}

PipelineError == "pipeline failed"

\* hasattr(result, 'pydantic')
HasPydantic(outcome) == outcome \in {"structured", "attr_none"}

\* generate_random_phrase, from the return of kickoff_async on
generate_random_phrase(outcome, words) ==
    IF outcome = "raise" THEN Raised(PipelineError)
    ELSE IF HasPydantic(outcome)
    THEN (IF outcome = "structured" THEN Model(StructuredPhrase) ELSE NoneResult)
    ELSE Model(PhraseOutput(RawText, words.l))

\* translate_word, from the return of kickoff_async on
translate_word(outcome, word, src, tgt) ==
    IF outcome = "raise" THEN Raised(PipelineError)
    ELSE IF HasPydantic(outcome)
    THEN (IF outcome = "structured" THEN Model(StructuredTranslation)
          ELSE NoneResult)
    ELSE IF IsStr(word) /\ IsStr(src) /\ IsStr(tgt)
    THEN Model(TranslationOutput(word.s, src.s, tgt.s, RawText, <<>>, <<>>, ""))
    ELSE Raised("validation error for TranslationOutput")

\* the inputs dict of kickoff_async: each entry as passed (raw) or as JSON text
NoInput == [enc |-> "none", val |-> None]
Raw(v) == [enc |-> "raw", val |-> v]
JsonText(v) == [enc |-> "json", val |-> v]
NoInputs == [words |-> NoInput, word |-> NoInput, source_language |-> NoInput,
             target_language |-> NoInput, user_context |-> NoInput]

\* generate_random_phrase: inputs = {...}
PhraseInputs(words, ctx) ==
    [NoInputs EXCEPT !.words = JsonText(words), !.user_context = JsonText(ctx)]

\* translate_word: inputs = {...}
TranslateInputs(word, src, tgt, ctx) ==
    [NoInputs EXCEPT !.word = Raw(word), !.source_language = Raw(src),
                     !.target_language = Raw(tgt),
                     !.user_context = Raw(Or(ctx, Str("")))]

\* response bodies: the keys of the JSON object, and their values
NoResp == [keys |-> {}, error |-> <<>>, out |-> NoOutput]
ErrorResp(prefix, msg) ==
    [keys |-> {"error"}, error |-> <<prefix, msg>>, out |-> NoOutput]

\* jsonify(result.model_dump())
DumpKeys(out) ==
    IF out.kind = "phrase" THEN {"phrase", "words"}
    ELSE {"word", "source_language", "target_language", "primary_translation",
          "alternative_translations", "examples", "notes"}
DumpResp(out) == [keys |-> DumpKeys(out), error |-> <<>>, out |-> out]

(***************************************************************************)
(* Parameter resolution of translate.                                      *)
(***************************************************************************)
\* `and user_profile`: a fetched row always holds its id column
ProfileTruthy(p) == p.some

\* mutant: the profile's language wins over the request's
ResolveSourceProfileFirst(reqValue, profile) ==
    LET v == IF ProfileTruthy(profile)
             THEN GetDefault(profile.d, "native_language", Str("English"))
             ELSE reqValue
    IN Or(Or(v, reqValue), Str("English"))

\* if not source_language and user_profile:
\*     source_language = user_profile.get("native_language", "English")
\* source_language = source_language or "English"
ResolveSource(reqValue, profile) ==
    LET v == IF ~Truthy(reqValue) /\ ProfileTruthy(profile)
             THEN GetDefault(profile.d, "native_language", Str("English"))
             ELSE reqValue
    IN Or(v, Str("English"))

\* the same for target_language, with "target_language" and "Spanish"
ResolveTarget(reqValue, profile) ==
    LET v == IF ~Truthy(reqValue) /\ ProfileTruthy(profile)
             THEN GetDefault(profile.d, "target_language", Str("Spanish"))
             ELSE reqValue
    IN Or(v, Str("Spanish"))

\* user_context = user_profile.get("context", "") if user_profile else ""
ResolveContext(profile) ==
    IF ProfileTruthy(profile) THEN GetDefault(profile.d, "context", Str(""))
    ELSE Str("")

\* get_user_context: the context of the row, None without a row or on error
get_user_context(row, failed) ==
    IF failed THEN None
    ELSE IF row.some THEN GetDefault(row.d, "context", Str(""))
    ELSE None

\* get_user_profile: the row, None without a row or on error
get_user_profile(row, failed) == IF failed THEN NoRow ELSE row


(***************************************************************************)
(* State.                                                                  *)
(***************************************************************************)
VARIABLES
    inflight,      \* the requests the server is handling
    endpoint,      \* per request: "phrase" or "translate"
    header,        \* per request: its Authorization header
    body,          \* per request: its body
    store,         \* the profiles table
    pc,            \* per request: the step its handler is at
    requestUser,   \* request.user
    idCalls,       \* per request: calls of supabase.auth.get_user
    idAnswer,      \* per request: "ok" or "raise", what get_user answered
    idToken,       \* per request: the token handed to supabase.auth.get_user
    locals,        \* per request: word(s), languages, user_id, token of the handler
    fetchCalls,    \* per request: calls of get_user_context / get_user_profile
    fetchArgs,     \* per request: (user_id, user_token) handed to the fetch
    fetchFailed,   \* per request: the profile store raised
    userProfile,   \* per request: user_profile (translate)
    userContext,   \* per request: user_context (phrase)
    params,        \* per request: the arguments handed to the gateway
    genCalls,      \* per request: calls of kickoff_async
    kickoffInputs, \* per request: the inputs of kickoff_async
    genOutcome,    \* per request: what kickoff_async did
    result,        \* per request: what the gateway handed back
    status,        \* per request: HTTP status of the response, 0 before it
    resp,          \* per request: body of the response
    respCount,     \* per request: responses returned
    trace          \* per request: the stages gone through

vars == <<inflight, endpoint, header, body, store, pc, requestUser, idCalls,
          idAnswer, idToken, locals, fetchCalls, fetchArgs, fetchFailed, userProfile,
          userContext, params, genCalls, kickoffInputs, genOutcome, result,
          status, resp, respCount, trace>>

inputVars == <<inflight, endpoint, header, body, store>>

Endpoints == {"phrase", "translate"}

NoLocals == [words |-> None, word |-> None, source_language |-> None,
             target_language |-> None, user_id |-> NoUser, token |-> <<>>]
NoParams == [words |-> None, word |-> None, source_language |-> None,
             target_language |-> None, user_context |-> None]
NoFetchArgs == [user_id |-> NoUser, token |-> <<>>]

\* what a request is: an endpoint, a header and a body
Request(ep, h, b) == [endpoint |-> ep, header |-> h, body |-> b]
RequestsWith(headers) ==
    {Request(ep, h, b) : ep \in {"phrase"}, h \in headers, b \in PhraseBodies}
    \cup {Request(ep, h, b) : ep \in {"translate"}, h \in headers,
                              b \in TranslateBodies}

\* a request that is never received
IdleRequest == Request("phrase", NoHeader, Unparseable)

\* the state after the server has received the requests `reqs` (a function
\* from the requests in flight to what they are) over the table `tbl`
InitWith(reqs, tbl) ==
    /\ inflight = DOMAIN reqs
    /\ endpoint = [r \in Reqs |-> IF r \in DOMAIN reqs THEN reqs[r].endpoint
                                  ELSE IdleRequest.endpoint]
    /\ header = [r \in Reqs |-> IF r \in DOMAIN reqs THEN reqs[r].header
                                ELSE IdleRequest.header]
    /\ body = [r \in Reqs |-> IF r \in DOMAIN reqs THEN reqs[r].body
                              ELSE IdleRequest.body]
    /\ store = tbl
    /\ pc = [r \in Reqs |-> IF r \in DOMAIN reqs THEN "auth" ELSE "idle"]
    /\ requestUser = [r \in Reqs |-> NoUser]
    /\ idCalls = [r \in Reqs |-> 0]
    /\ idAnswer = [r \in Reqs |-> "none"]
    /\ idToken = [r \in Reqs |-> <<>>]
    /\ locals = [r \in Reqs |-> NoLocals]
    /\ fetchCalls = [r \in Reqs |-> 0]
    /\ fetchArgs = [r \in Reqs |-> NoFetchArgs]
    /\ fetchFailed = [r \in Reqs |-> FALSE]
    /\ userProfile = [r \in Reqs |-> NoRow]
    /\ userContext = [r \in Reqs |-> None]
    /\ params = [r \in Reqs |-> NoParams]
    /\ genCalls = [r \in Reqs |-> 0]
    /\ kickoffInputs = [r \in Reqs |-> NoInputs]
    /\ genOutcome = [r \in Reqs |-> "none"]
    /\ result = [r \in Reqs |-> Unset]
    /\ status = [r \in Reqs |-> 0]
    /\ resp = [r \in Reqs |-> NoResp]
    /\ respCount = [r \in Reqs |-> 0]
    /\ trace = [r \in Reqs |-> IF r \in DOMAIN reqs THEN <<"Unauthenticated">>
                               ELSE <<>>]

\* one request in flight: any endpoint, body and header, any table
Init ==
    \E q \in RequestsWith(SomeHeaders), tbl \in UniformStores :
        InitWith([r \in {"r1"} |-> q], tbl)

(***************************************************************************)
(* Steps of a request.                                                     *)
(***************************************************************************)
\* return jsonify(...), code
Respond(r, code, rbody) ==
    /\ status' = [status EXCEPT ![r] = code]
    /\ resp' = [resp EXCEPT ![r] = rbody]
    /\ respCount' = [respCount EXCEPT ![r] = @ + 1]
    /\ pc' = [pc EXCEPT ![r] = "done"]
    /\ UNCHANGED trace

\* the request moves on to the next step, having reached `stage`
Advance(r, next, stage) ==
    /\ pc' = [pc EXCEPT ![r] = next]
    /\ trace' = [trace EXCEPT ![r] = Append(@, stage)]
    /\ UNCHANGED <<status, resp, respCount>>

\* mutant: the catch-all returns the error body without a status code,
\* which the framework sends as 200
ServerErrorNoStatus(r, msg) ==
    Respond(r, 200, ErrorResp("An error occurred: ", msg))

\* the handler's catch-all: except Exception as e -> 500
ServerError(r, msg) ==
    Respond(r, 500, ErrorResp("An error occurred: ", msg))

\* mutant: no check that the header is there; an absent header goes to the
\* identity service as an empty token
AuthNoHeaderCheck(r) ==
    /\ pc[r] = "auth"
    /\ UNCHANGED <<inputVars, locals, fetchCalls, fetchArgs, fetchFailed,
                   userProfile, userContext, params, genCalls, kickoffInputs,
                   genOutcome, result>>
    /\ LET ext == ExtractToken(header[r].val) IN
       \E serviceError \in BOOLEAN :
           /\ idCalls' = [idCalls EXCEPT ![r] = @ + 1]
           /\ idToken' = [idToken EXCEPT ![r] = ext.token]
           /\ idAnswer' = [idAnswer EXCEPT ![r] =
                  IF serviceError \/ ~ValidToken(ext.token) THEN "raise"
                  ELSE "ok"]
           /\ IF serviceError \/ ~ValidToken(ext.token)
              THEN /\ Respond(r, 401,
                              ErrorResp("Authentication failed: ",
                                        "identity service error"))
                   /\ UNCHANGED requestUser
              ELSE /\ requestUser' =
                          SetRequestUser(requestUser, r, UserOf(ext.token))
                   /\ Advance(r, "validate", "Authenticated")

\* require_auth.decorated_function, up to `return await f(...)`
require_auth(r) ==
    /\ pc[r] = "auth"
    /\ UNCHANGED <<inputVars, locals, fetchCalls, fetchArgs, fetchFailed,
                   userProfile, userContext, params, genCalls, kickoffInputs,
                   genOutcome, result>>
    /\ IF ~header[r].present \/ header[r].val = <<>>
       THEN /\ Respond(r, 401, ErrorResp("Authorization header is required", ""))
            /\ UNCHANGED <<requestUser, idCalls, idAnswer, idToken>>
       ELSE LET ext == ExtractToken(header[r].val) IN
            IF ~ext.ok
            THEN /\ Respond(r, 401,
                            ErrorResp("Invalid authorization header format", ""))
                 /\ UNCHANGED <<requestUser, idCalls, idAnswer, idToken>>
            ELSE \E serviceError \in BOOLEAN :
                 /\ idCalls' = [idCalls EXCEPT ![r] = @ + 1]
                 /\ idToken' = [idToken EXCEPT ![r] = ext.token]
                 /\ idAnswer' = [idAnswer EXCEPT ![r] =
                        IF serviceError \/ ~ValidToken(ext.token) THEN "raise"
                        ELSE "ok"]
                 /\ IF serviceError \/ ~ValidToken(ext.token)
                    THEN /\ Respond(r, 401,
                                    ErrorResp("Authentication failed: ",
                                              "identity service error"))
                         /\ UNCHANGED requestUser
                    ELSE /\ requestUser' =
                                SetRequestUser(requestUser, r, UserOf(ext.token))
                         /\ Advance(r, "validate", "Authenticated")


\* mutant: `words` is not checked to be a non-empty list
PhraseBodyCheckLoose(b) ==
    IF b.kind = "unparseable"
    THEN [code |-> 500, msg |-> "400 Bad Request"]
    ELSE IF BodyFalsy(b) \/ ~BodyHas(b, "words")
    THEN [code |-> 400, msg |-> "Request body must include 'words' array"]
    ELSE IF ~BodyHasGet(b)
    THEN [code |-> 500, msg |-> "'list' object has no attribute 'get'"]
    ELSE [code |-> 0, msg |-> ""]

\* get_random_phrase, from request.get_json() to the check of `words`:
\* code 0 lets the request through, 400 and 500 end it
PhraseBodyCheck(b) ==
    IF b.kind = "unparseable"
    THEN [code |-> 500, msg |-> "400 Bad Request"]
    ELSE IF BodyFalsy(b) \/ ~BodyHas(b, "words")
    THEN [code |-> 400, msg |-> "Request body must include 'words' array"]
    ELSE IF ~BodyHasGet(b)
    THEN [code |-> 500, msg |-> "'list' object has no attribute 'get'"]
    ELSE LET words == GetDefault(b.obj, "words", List(<<>>)) IN
         IF ~IsList(words) \/ Len(words.l) = 0
         THEN [code |-> 400, msg |-> "'words' must be a non-empty array"]
         ELSE [code |-> 0, msg |-> ""]

\* translate, from request.get_json() to the check of `word`
TranslateBodyCheck(b) ==
    IF b.kind = "unparseable"
    THEN [code |-> 500, msg |-> "400 Bad Request"]
    ELSE IF BodyFalsy(b) \/ ~BodyHas(b, "word")
    THEN [code |-> 400, msg |-> "Request body must include 'word'"]
    ELSE IF ~BodyHasGet(b)
    THEN [code |-> 500, msg |-> "'list' object has no attribute 'get'"]
    ELSE IF ~Truthy(Get(b.obj, "word"))
    THEN [code |-> 400, msg |-> "'word' cannot be empty"]
    ELSE [code |-> 0, msg |-> ""]

BodyCheck(ep, b) ==
    IF ep = "phrase" THEN PhraseBodyCheck(b) ELSE TranslateBodyCheck(b)

\* the head of either handler: the body checks, then user_id = request.user.id
\* and the token taken from the header again
Validate(r) ==
    /\ pc[r] = "validate"
    /\ UNCHANGED <<inputVars, requestUser, idCalls, idAnswer, idToken, fetchCalls,
                   fetchArgs, fetchFailed, userProfile, userContext, params,
                   genCalls, kickoffInputs, genOutcome, result>>
    /\ LET chk == BodyCheck(endpoint[r], body[r])
           ext == ExtractToken(header[r].val)
       IN IF chk.code = 400
          THEN /\ Respond(r, 400, ErrorResp(chk.msg, ""))
               /\ UNCHANGED locals
          ELSE IF chk.code = 500
          THEN /\ ServerError(r, chk.msg)
               /\ UNCHANGED locals
          ELSE IF ~ext.ok
          THEN /\ ServerError(r, "list index out of range")
               /\ UNCHANGED locals
          ELSE /\ locals' = [locals EXCEPT ![r] =
                    [words |-> Get(body[r].obj, "words"),
                     word |-> Get(body[r].obj, "word"),
                     source_language |-> Get(body[r].obj, "source_language"),
                     target_language |-> Get(body[r].obj, "target_language"),
                     user_id |-> requestUser[r],
                     token |-> ext.token]]
               /\ pc' = [pc EXCEPT ![r] = "fetch"]
               /\ UNCHANGED <<status, resp, respCount, trace>>

\* mutant: the fetch has no try/except, an error of the store reaches the
\* handler's catch-all
FetchUncaught(r) ==
    /\ pc[r] = "fetch"
    /\ UNCHANGED <<inputVars, requestUser, idCalls, idAnswer, idToken, locals,
                   params, genCalls, kickoffInputs, genOutcome, result>>
    /\ \E storeError \in BOOLEAN :
        LET row == store[locals[r].user_id] IN
        /\ fetchCalls' = [fetchCalls EXCEPT ![r] = @ + 1]
        /\ fetchArgs' = [fetchArgs EXCEPT ![r] =
                            [user_id |-> locals[r].user_id,
                             token |-> locals[r].token]]
        /\ fetchFailed' = [fetchFailed EXCEPT ![r] = storeError]
        /\ IF storeError
           THEN /\ ServerError(r, "profile store error")
                /\ UNCHANGED <<userProfile, userContext>>
           ELSE /\ IF endpoint[r] = "phrase"
                   THEN /\ userContext' =
                               [userContext EXCEPT ![r] = get_user_context(row, FALSE)]
                        /\ UNCHANGED userProfile
                   ELSE /\ userProfile' =
                               [userProfile EXCEPT ![r] = get_user_profile(row, FALSE)]
                        /\ UNCHANGED userContext
                /\ Advance(r, "resolve", "ProfileResolved")

\* await get_user_context(user_id, token) / await get_user_profile(user_id, token):
\* an error of the store is caught inside and None is returned
Fetch(r) ==
    /\ pc[r] = "fetch"
    /\ UNCHANGED <<inputVars, requestUser, idCalls, idAnswer, idToken, locals, params,
                   genCalls, kickoffInputs, genOutcome, result>>
    /\ \E storeError \in BOOLEAN :
        LET row == store[locals[r].user_id] IN
        /\ fetchCalls' = [fetchCalls EXCEPT ![r] = @ + 1]
        /\ fetchArgs' = [fetchArgs EXCEPT ![r] =
                            [user_id |-> locals[r].user_id,
                             token |-> locals[r].token]]
        /\ fetchFailed' = [fetchFailed EXCEPT ![r] = storeError]
        /\ IF endpoint[r] = "phrase"
           THEN /\ userContext' =
                       [userContext EXCEPT ![r] = get_user_context(row, storeError)]
                /\ UNCHANGED userProfile
           ELSE /\ userProfile' =
                       [userProfile EXCEPT ![r] = get_user_profile(row, storeError)]
                /\ UNCHANGED userContext
        /\ Advance(r, "resolve", "ProfileResolved")

\* the arguments of the gateway call: for a phrase (words, user_context or ""),
\* for a translation the languages and context resolved from request and profile
ResolveParams(ep, loc, profile, ctx) ==
    IF ep = "phrase"
    THEN [NoParams EXCEPT !.words = loc.words,
                          !.user_context = Or(ctx, Str(""))]
    ELSE [NoParams EXCEPT
            !.word = loc.word,
            !.source_language = ResolveSource(loc.source_language, profile),
            !.target_language = ResolveTarget(loc.target_language, profile),
            !.user_context = Or(ResolveContext(profile), Str(""))]

Resolve(r) ==
    /\ pc[r] = "resolve"
    /\ UNCHANGED <<inputVars, requestUser, idCalls, idAnswer, idToken, locals, fetchCalls,
                   fetchArgs, fetchFailed, userProfile, userContext, genCalls,
                   kickoffInputs, genOutcome, result>>
    /\ params' = [params EXCEPT ![r] =
                    ResolveParams(endpoint[r], locals[r], userProfile[r],
                                  userContext[r])]
    /\ Advance(r, "generate", "ParametersResolved")

\* mutant: the gateway swallows an exception of the pipeline and hands
\* back its fallback result
GatewayResultSwallow(ep, outcome, p) ==
    LET o == IF outcome = "raise" THEN "raw" ELSE outcome IN
    IF ep = "phrase" THEN generate_random_phrase(o, p.words)
    ELSE translate_word(o, p.word, p.source_language, p.target_language)

\* what the gateway hands back for an outcome of kickoff_async
GatewayResult(ep, outcome, p) ==
    IF ep = "phrase" THEN generate_random_phrase(outcome, p.words)
    ELSE translate_word(outcome, p.word, p.source_language,
                             p.target_language)

GatewayInputs(ep, p) ==
    IF ep = "phrase" THEN PhraseInputs(p.words, p.user_context)
    ELSE TranslateInputs(p.word, p.source_language, p.target_language,
                         p.user_context)

\* await generate_random_phrase(...) / await translate_word(...): one call of
\* kickoff_async; an exception of the gateway lands in the handler's catch-all
Generate(r) ==
    /\ pc[r] = "generate"
    /\ UNCHANGED <<inputVars, requestUser, idCalls, idAnswer, idToken, locals, fetchCalls,
                   fetchArgs, fetchFailed, userProfile, userContext, params>>
    /\ \E outcome \in PipelineOutcomes :
        LET res == GatewayResult(endpoint[r], outcome, params[r]) IN
        /\ genCalls' = [genCalls EXCEPT ![r] = @ + 1]
        /\ kickoffInputs' = [kickoffInputs EXCEPT ![r] =
                                GatewayInputs(endpoint[r], params[r])]
        /\ genOutcome' = [genOutcome EXCEPT ![r] = outcome]
        /\ result' = [result EXCEPT ![r] = res]
        /\ IF res.kind = "raised"
           THEN ServerError(r, res.msg)
           ELSE Advance(r, "serialize", "Generated")

\* return jsonify(result.model_dump()), 200; None has no model_dump
Serialize(r) ==
    /\ pc[r] = "serialize"
    /\ UNCHANGED <<inputVars, requestUser, idCalls, idAnswer, idToken, locals, fetchCalls,
                   fetchArgs, fetchFailed, userProfile, userContext, params,
                   genCalls, kickoffInputs, genOutcome, result>>
    /\ IF result[r].kind = "model"
       THEN /\ status' = [status EXCEPT ![r] = 200]
            /\ resp' = [resp EXCEPT ![r] = DumpResp(result[r].out)]
            /\ respCount' = [respCount EXCEPT ![r] = @ + 1]
            /\ pc' = [pc EXCEPT ![r] = "done"]
            /\ trace' = [trace EXCEPT ![r] = Append(@, "Serialized")]
       ELSE ServerError(r, "'NoneType' object has no attribute 'model_dump'")

Next ==
    \/ \E r \in inflight : require_auth(r)
    \/ \E r \in inflight : Validate(r)
    \/ \E r \in inflight : Fetch(r)
    \/ \E r \in inflight : Resolve(r)
    \/ \E r \in inflight : Generate(r)
    \/ \E r \in inflight : Serialize(r)

Spec == Init /\ [][Next]_vars

\* one request in flight with any header value of at most MaxHeaderLen
\* characters, over a table in which every user holds a full row
HeaderBodies(ep) ==
    IF ep = "phrase"
    THEN {ObjectBody([EmptyBodyDict EXCEPT !["words"] = List(<<"sun">>)])}
    ELSE {ObjectBody([EmptyBodyDict EXCEPT !["word"] = Str("hi")])}

InitHeaders ==
    \E ep \in Endpoints, h \in AllHeaders :
        \E b \in HeaderBodies(ep) :
            InitWith([r \in {"r1"} |-> Request(ep, h, b)],
                     [u \in Users |-> FullRow])

SpecHeaders == InitHeaders /\ [][Next]_vars

\* two requests in flight together, for the same user or for two users
ConcurrentRequests ==
    {Request(ep, h, b) :
        ep \in {"phrase"},
        h \in {NoHeader, Header(<<"a">>), Header(<<"a", " ", "b">>)},
        b \in {ObjectBody([EmptyBodyDict EXCEPT !["words"] = List(<<"sun">>)])}}
    \cup
    {Request(ep, h, b) :
        ep \in {"translate"},
        h \in {NoHeader, Header(<<"a">>), Header(<<"a", " ", "b">>)},
        b \in {ObjectBody([EmptyBodyDict EXCEPT !["word"] = Str("hi")]),
               ObjectBody([EmptyBodyDict EXCEPT !["word"] = Str("")])}}

InitConcurrent ==
    \E q1 \in ConcurrentRequests, q2 \in ConcurrentRequests, tbl \in SomeStores :
        InitWith([r \in Reqs |-> IF r = "r1" THEN q1 ELSE q2], tbl)

SpecConcurrent == InitConcurrent /\ [][Next]_vars


(***************************************************************************)
(* Vocabulary of the properties.                                           *)
(***************************************************************************)
\* the handler of r has resolved its parameters
ParamsResolved(r) == pc[r] \in {"generate", "serialize"} \/ genCalls[r] > 0

Finished(r) == pc[r] = "done"

\* the request passed require_auth
Authenticated(r) == idAnswer[r] = "ok"

\* the body's value under a key, Missing when the body is no object or
\* does not hold the key
BodyField(r, k) == IF body[r].kind = "object" THEN body[r].obj[k] ELSE Missing

\* the shape the endpoint asks of a body: `words` a non-empty list, `word`
\* a non-empty value
WellShaped(r) ==
    IF endpoint[r] = "phrase"
    THEN BodyField(r, "words").t = "list" /\ BodyField(r, "words").l # <<>>
    ELSE BodyField(r, "word").t \in {"str", "list"}
         /\ BodyField(r, "word") \notin {Str(""), List(<<>>)}

\* a profile field that is there and not empty
FieldSet(profile, k) ==
    profile.some /\ profile.d[k].t = "str" /\ profile.d[k].s # ""

(***************************************************************************)
(* C1: For every translate request that passes authentication and          *)
(* validation, each language handed to translate_word is the request's     *)
(* value if provided and non-empty, otherwise the fetched profile's value   *)
(* (native_language for source, target_language for target) if a profile   *)
(* is present and that field is non-empty, otherwise the default           *)
(* ("English" for source, "Spanish" for target).                           *)
(***************************************************************************)
Precedence(reqValue, profile, k, default) ==
    IF reqValue.t = "str" /\ reqValue.s # "" THEN reqValue
    ELSE IF FieldSet(profile, k) THEN profile.d[k]
    ELSE Str(default)

C1_LanguagePrecedence ==
    \A r \in inflight :
        (endpoint[r] = "translate" /\ ParamsResolved(r)) =>
            /\ params[r].source_language =
                   Precedence(BodyField(r, "source_language"), userProfile[r],
                              "native_language", "English")
            /\ params[r].target_language =
                   Precedence(BodyField(r, "target_language"), userProfile[r],
                              "target_language", "Spanish")
            /\ (genCalls[r] > 0 =>
                   /\ kickoffInputs[r].source_language =
                          Raw(params[r].source_language)
                   /\ kickoffInputs[r].target_language =
                          Raw(params[r].target_language))

\* a request value overrides the profile, a profile value fills the gap of
\* the other language, and translate_word has been called
C1_Witness ==
    \E r \in inflight :
        /\ endpoint[r] = "translate" /\ genCalls[r] = 1
        /\ BodyField(r, "target_language") = Str("Italian")
        /\ BodyField(r, "source_language") = Missing
        /\ userProfile[r].some
        /\ userProfile[r].d["target_language"] = Str("German")
        /\ userProfile[r].d["native_language"] = Str("French")
        /\ params[r].target_language = Str("Italian")
        /\ params[r].source_language = Str("French")

\* C1 as stated: a value the request provides, the empty string included,
\* is never replaced by a profile value or a default
OriginalPrecedence(reqValue, profile, k, default) ==
    IF reqValue.t # "missing" THEN reqValue
    ELSE IF FieldSet(profile, k) THEN profile.d[k]
    ELSE Str(default)

C1_AsStated ==
    \A r \in inflight :
        (endpoint[r] = "translate" /\ ParamsResolved(r)) =>
            /\ params[r].source_language =
                   OriginalPrecedence(BodyField(r, "source_language"),
                                      userProfile[r], "native_language",
                                      "English")
            /\ params[r].target_language =
                   OriginalPrecedence(BodyField(r, "target_language"),
                                      userProfile[r], "target_language",
                                      "Spanish")

(***************************************************************************)
(* C2: A failure of the profile store never produces a 500 of its own: the *)
(* fetch hands back what it hands back for an absent profile, the          *)
(* parameters are the default-derived ones (user_context "", and for       *)
(* translate the request's languages or "English"/"Spanish"), the          *)
(* generation call is made, and when the gateway hands back a result the   *)
(* response is 200.                                                        *)
(***************************************************************************)
RequestOrDefault(reqValue, default) ==
    IF reqValue.t = "str" /\ reqValue.s # "" THEN reqValue ELSE Str(default)

C2_ProfileFailureDegrades ==
    \A r \in inflight :
        fetchFailed[r] =>
            /\ userProfile[r] = NoRow /\ userContext[r] = None
            /\ pc[r] \in {"resolve", "generate", "serialize", "done"}
            /\ Finished(r) => genCalls[r] = 1
            /\ ParamsResolved(r) =>
                /\ params[r].user_context = Str("")
                /\ endpoint[r] = "translate" =>
                    /\ params[r].source_language =
                           RequestOrDefault(BodyField(r, "source_language"),
                                            "English")
                    /\ params[r].target_language =
                           RequestOrDefault(BodyField(r, "target_language"),
                                            "Spanish")
            /\ genCalls[r] = 1 =>
                   kickoffInputs[r].user_context.val = Str("")
            /\ (Finished(r) /\ result[r].kind = "model") => status[r] = 200
            /\ (Finished(r) /\ status[r] = 500) => result[r].kind # "model"

\* the store failed although the user holds a full row, and the request
\* ended with 200
C2_Witness ==
    \E r \in inflight :
        /\ fetchFailed[r] /\ Finished(r) /\ status[r] = 200
        /\ endpoint[r] = "translate"
        /\ store[locals[r].user_id].some
        /\ store[locals[r].user_id].d["native_language"] = Str("French")
        /\ params[r].source_language = Str("English")


(***************************************************************************)
(* C3: Body validation happens after the identity verification and before  *)
(* the profile fetch and the generation call: for a request whose body     *)
(* lacks a non-empty `words` list (phrase) or a non-empty `word`           *)
(* (translate), neither the profile fetch nor the generation call is ever  *)
(* made; the identity service is called exactly when the header is not     *)
(* empty; the request ends with 401 when it is not authenticated and       *)
(* otherwise with 400, or with 500 for a body that cannot be parsed or is  *)
(* a JSON array.                                                           *)
(***************************************************************************)
HeaderGiven(r) == header[r].present /\ header[r].val # <<>>

C4_Unauthorized ==
    \A r \in inflight :
        /\ idCalls[r] <= 1
        /\ ~HeaderGiven(r) => idCalls[r] = 0
        /\ idAnswer[r] = "raise" => Finished(r)
        /\ (Finished(r) /\ (~HeaderGiven(r) \/ idAnswer[r] = "raise")) =>
            /\ status[r] = 401
            /\ resp[r].keys = {"error"} /\ resp[r].out = NoOutput
            /\ fetchCalls[r] = 0 /\ genCalls[r] = 0
            /\ trace[r] = <<"Unauthenticated">>

\* the identity service turned a presented token down
C4_Witness ==
    \E r \in inflight :
        /\ HeaderGiven(r) /\ idAnswer[r] = "raise" /\ idCalls[r] = 1
        /\ Finished(r) /\ status[r] = 401

(***************************************************************************)
(* C5: For every authenticated request, a body that violates the           *)
(* endpoint's shape (missing body, missing key, `words` not a list or      *)
(* empty, `word` empty) yields 400 and no profile fetch or generation      *)
(* call, never 200 or 500.                                                 *)
(***************************************************************************)
C5_MalformedBodyIs400 ==
    \A r \in inflight :
        (Authenticated(r) /\ ~WellShaped(r)) =>
            /\ fetchCalls[r] = 0 /\ genCalls[r] = 0
            /\ Finished(r) => status[r] = 400


(***************************************************************************)
(* C6: Token extraction: for every non-empty Authorization header value,   *)
(* if the value contains a space the credential presented to the identity  *)
(* service, and later to the profile store, is the part between the first  *)
(* space and the next space (or the end of the value when there is no      *)
(* further space), otherwise it is the entire value; extraction never      *)
(* fails, whatever the number and the places of the spaces.                *)
(***************************************************************************)
\* the place of the first space of s at or after place i; Len(s) + 1 if none
SpaceFrom(s, i) ==
    IF \E j \in i..Len(s) : s[j] = " "
    THEN CHOOSE j \in i..Len(s) : s[j] = " " /\ \A k \in i..(j - 1) : s[k] # " "
    ELSE Len(s) + 1

\* the part of s between its first space and the next one
SecondPiece(s) ==
    LET first == SpaceFrom(s, 1) IN
    SubSeq(s, first + 1, SpaceFrom(s, first + 1) - 1)

\* the whole of s after its first space
AfterFirstSpace(s) == SubSeq(s, SpaceFrom(s, 1) + 1, Len(s))

ExtractionFailed(r) ==
    \/ resp[r].error = <<"Invalid authorization header format", "">>
    \/ resp[r].error = <<"An error occurred: ", "list index out of range">>

C6_TokenIsSecondPiece ==
    \A r \in inflight :
        LET h == header[r].val
            credential == IF HasSpace(h) THEN SecondPiece(h) ELSE h
        IN /\ ~ExtractionFailed(r)
           /\ (HeaderGiven(r) /\ pc[r] # "auth") =>
                  idCalls[r] = 1 /\ idToken[r] = credential
           /\ fetchCalls[r] = 1 => fetchArgs[r].token = credential

\* a header with two spaces went through both extractions
C6_Witness ==
    \E r \in inflight :
        /\ Len(SelectSeq(header[r].val, LAMBDA c : c = " ")) = 2
        /\ idCalls[r] = 1 /\ fetchCalls[r] = 1
        /\ fetchArgs[r].token = <<"a">>

\* C6 as stated: the credential is the whole substring after the first space
C6_AsStated ==
    \A r \in inflight :
        LET h == header[r].val
            credential == IF HasSpace(h) THEN AfterFirstSpace(h) ELSE h
        IN /\ (HeaderGiven(r) /\ pc[r] # "auth") => idToken[r] = credential
           /\ fetchCalls[r] = 1 => fetchArgs[r].token = credential

(***************************************************************************)
(* C7: Whenever the pipeline call returns without raising but its result   *)
(* holds no usable structured result, the gateway hands back a fallback    *)
(* result and never raises: the raw text as phrase with the request's      *)
(* words, or the request's word and resolved languages with the raw text   *)
(* as primary_translation and empty alternatives, examples and notes; the  *)
(* request then ends with 200, never 500.                                  *)
(***************************************************************************)
Fallback(r) ==
    IF endpoint[r] = "phrase"
    THEN PhraseOutput(RawText, params[r].words.l)
    ELSE TranslationOutput(params[r].word.s, params[r].source_language.s,
                           params[r].target_language.s, RawText, <<>>, <<>>, "")

C7_FallbackNeverRaises ==
    \A r \in inflight :
        genOutcome[r] \in {"raw", "attr_none"} =>
            /\ result[r] = Model(Fallback(r))
            /\ Finished(r) => status[r] = 200

(***************************************************************************)
(* C8: For every authenticated, valid request the generation pipeline is   *)
(* invoked at most once; if that invocation raises, the request ends with  *)
(* 500 whose body holds only an `error` field carrying the exception's     *)
(* message, no generated field, and the pipeline is not invoked again.     *)
(***************************************************************************)
C8_GenerationFailureIs500 ==
    \A r \in inflight :
        /\ genCalls[r] <= 1
        /\ genOutcome[r] = "raise" =>
            /\ Finished(r) /\ genCalls[r] = 1
            /\ status[r] = 500
            /\ resp[r].keys = {"error"}
            /\ resp[r].error = <<"An error occurred: ", PipelineError>>
            /\ resp[r].out = NoOutput

\* the pipeline raised for a request that had got as far as the call
C8_Witness ==
    \E r \in inflight :
        /\ genOutcome[r] = "raise" /\ genCalls[r] = 1 /\ status[r] = 500
        /\ Authenticated(r) /\ WellShaped(r)

(***************************************************************************)
(* C9: Each request goes through the stages Unauthenticated,               *)
(* Authenticated, ProfileResolved, ParametersResolved, Generated,          *)
(* Serialized in that order, none skipped or repeated; a failure at any    *)
(* stage but profile resolution ends it at once with exactly one error     *)
(* response and no later stage runs; a profile-resolution failure goes on  *)
(* to ParametersResolved; only a request that reached Generated gets 200.  *)
(***************************************************************************)
Stages == <<"Unauthenticated", "Authenticated", "ProfileResolved",
            "ParametersResolved", "Generated", "Serialized">>

IsPrefix(p, q) == Len(p) <= Len(q) /\ SubSeq(q, 1, Len(p)) = p

Reached(r, stage) == \E i \in 1..Len(trace[r]) : trace[r][i] = stage

StagesInOrder(r) ==
    /\ Len(trace[r]) >= 1 /\ IsPrefix(trace[r], Stages)
    /\ respCount[r] = (IF Finished(r) THEN 1 ELSE 0)
    /\ ~Finished(r) => status[r] = 0
    /\ Finished(r) => status[r] \in {200, 400, 401, 500}
    /\ status[r] = 200 <=> Reached(r, "Serialized")
    /\ status[r] = 200 => Reached(r, "Generated") /\ trace[r] = Stages
    /\ status[r] \in {400, 401, 500} => resp[r].keys = {"error"}
    /\ (fetchFailed[r] /\ Finished(r)) => Reached(r, "ParametersResolved")
    /\ fetchCalls[r] = (IF Reached(r, "ProfileResolved") THEN 1 ELSE 0)
    /\ genCalls[r] <= 1
    /\ Reached(r, "Generated") => genCalls[r] = 1

\* a step of r adds the next stage or none, and a finished request is left alone
StageStep(r) ==
    /\ \/ trace'[r] = trace[r]
       \/ /\ ~Finished(r) /\ Len(trace[r]) < Len(Stages)
          /\ trace'[r] = Append(trace[r], Stages[Len(trace[r]) + 1])
    /\ Finished(r) =>
        /\ Finished(r)'
        /\ status'[r] = status[r] /\ resp'[r] = resp[r]
        /\ respCount'[r] = respCount[r]
        /\ idCalls'[r] = idCalls[r] /\ fetchCalls'[r] = fetchCalls[r]
        /\ genCalls'[r] = genCalls[r]

C9_StageOrder ==
    /\ [](\A r \in inflight : StagesInOrder(r))
    /\ [][\A r \in inflight : StageStep(r)]_vars

\* a request whose profile fetch failed went through every stage
C9_Witness ==
    \E r \in inflight :
        fetchFailed[r] /\ status[r] = 200 /\ trace[r] = Stages

(***************************************************************************)
(* C10: Concurrent requests do not interfere: however two requests in      *)
(* flight interleave, the identity, credential, profile and resolved       *)
(* parameters each one uses, and the response it returns, are those it     *)
(* gets running alone with the same collaborator answers.                  *)
(***************************************************************************)
\* what the request r gets on its own, from its header, its body, the table
\* and the answers its collaborators gave it
OwnToken(r) == ExtractToken(header[r].val).token

OwnUser(r) == UserOf(OwnToken(r))

OwnProfile(r) == get_user_profile(store[OwnUser(r)], fetchFailed[r])

OwnContext(r) == get_user_context(store[OwnUser(r)], fetchFailed[r])

OwnParams(r) ==
    ResolveParams(endpoint[r],
                  [words |-> Get(body[r].obj, "words"),
                   word |-> Get(body[r].obj, "word"),
                   source_language |-> Get(body[r].obj, "source_language"),
                   target_language |-> Get(body[r].obj, "target_language"),
                   user_id |-> OwnUser(r), token |-> OwnToken(r)],
                  OwnProfile(r), OwnContext(r))

OwnResponse(r) ==
    LET chk == BodyCheck(endpoint[r], body[r])
        res == GatewayResult(endpoint[r], genOutcome[r], OwnParams(r))
    IN IF ~HeaderGiven(r)
       THEN [status |-> 401,
             resp |-> ErrorResp("Authorization header is required", "")]
       ELSE IF idAnswer[r] = "raise"
       THEN [status |-> 401,
             resp |-> ErrorResp("Authentication failed: ",
                                "identity service error")]
       ELSE IF chk.code = 400
       THEN [status |-> 400, resp |-> ErrorResp(chk.msg, "")]
       ELSE IF chk.code = 500
       THEN [status |-> 500, resp |-> ErrorResp("An error occurred: ", chk.msg)]
       ELSE IF res.kind = "raised"
       THEN [status |-> 500, resp |-> ErrorResp("An error occurred: ", res.msg)]
       ELSE IF res.kind = "model"
       THEN [status |-> 200, resp |-> DumpResp(res.out)]
       ELSE [status |-> 500,
             resp |-> ErrorResp("An error occurred: ",
                                "'NoneType' object has no attribute 'model_dump'")]

C10_NoInterference ==
    \A r \in inflight :
        /\ idCalls[r] = 1 => idToken[r] = OwnToken(r)
        /\ pc[r] \in {"fetch", "resolve", "generate", "serialize"} =>
               requestUser[r] = OwnUser(r)
        /\ pc[r] \in {"fetch", "resolve", "generate", "serialize"} =>
               locals[r].user_id = OwnUser(r) /\ locals[r].token = OwnToken(r)
        /\ fetchCalls[r] = 1 =>
               /\ fetchArgs[r] = [user_id |-> OwnUser(r), token |-> OwnToken(r)]
               /\ endpoint[r] = "translate" => userProfile[r] = OwnProfile(r)
               /\ endpoint[r] = "phrase" => userContext[r] = OwnContext(r)
        /\ ParamsResolved(r) => params[r] = OwnParams(r)
        /\ Finished(r) =>
               status[r] = OwnResponse(r).status /\ resp[r] = OwnResponse(r).resp

\* two requests of two users, both past their profile fetch and neither
\* finished: every interleaving of their steps has been possible
C10_Witness ==
    /\ inflight = Reqs
    /\ \A r \in Reqs : pc[r] \in {"resolve", "generate", "serialize"}
    /\ endpoint["r1"] = "translate" /\ endpoint["r2"] = "translate"
    /\ fetchArgs["r1"].user_id = "u1" /\ fetchArgs["r2"].user_id = "u2"
    /\ userProfile["r1"] # userProfile["r2"]

====
